---- MODULE Spec2Model ----
(***************************************************************************)
(* Model of the mcp_lab demo: a tool registry (tools.py), five database    *)
(* lookup functions (tools.py) and the query orchestrator in its two       *)
(* variants (main.py and old_app.py).                                      *)
(*                                                                         *)
(* Python values are tagged records (PyStr, PyInt, PyNone, PyList, PyDict) *)
(* so that isinstance tests, truthiness, dict.get and f-string formatting  *)
(* are computed the way the interpreter computes them.  The model endpoint *)
(* and the database are the environment: every reply they can give is      *)
(* drawn from a bounded set at the step that receives it.                  *)
(***************************************************************************)
EXTENDS Integers, Sequences, FiniteSets, TLC

VARIABLES
    tools,           \* ToolRegistry.tools: list of tool descriptors
    tool_functions,  \* ToolRegistry.tool_functions: name -> function
    variant,         \* which orchestrator runs the query: "main" / "old_app"
    query,           \* the query of the current process_query run
    pc,              \* position of the current process_query run
    tags_reply,      \* reply received to the availability check
    select_reply,    \* reply received to the tool-selection request
    tool_name,       \* first element returned by get_tool_call
    params,          \* second element returned by get_tool_call
    db_env,          \* what the database did during the lookup call
    tool_response,   \* value returned by call_mcp_tool
    final_response,  \* value process_query returns
    raised,          \* TRUE iff process_query ended by raising
    events,          \* external steps of this run, in order
    invoked,         \* functions called through the registry in this run
    conn,            \* connection of the latest lookup call
    executed,        \* SQL statements executed since the log was cleared
    lookup_result    \* outcome of the latest direct lookup call

vars == <<tools, tool_functions, variant, query, pc, tags_reply, select_reply,
          tool_name, params, db_env, tool_response, final_response, raised,
          events, invoked, conn, executed, lookup_result>>

registryVars == <<tools, tool_functions>>

runVars == <<variant, query, pc, tags_reply, select_reply, tool_name, params,
             db_env, tool_response, final_response, raised, events, invoked>>

-----------------------------------------------------------------------------
(* Bounds *)

\* Largest number of register_tool calls explored on a fresh registry.
MaxRegistrations == 3

\* Largest number of statements kept in the log by direct lookup calls.
MaxStatements == 3

-----------------------------------------------------------------------------
(* Python values *)

PyStr(s) == [t |-> "str", s |-> s]
PyInt(n) == [t |-> "int", n |-> n]
PyNone == [t |-> "none"]
PyList(l) == [t |-> "list", l |-> l]
PyDict(d) == [t |-> "dict", d |-> d]
Unset == [t |-> "unset"]

EmptyDict == PyDict(<<>>)

\* bool(v)
Truthy(v) ==
    CASE v.t = "none" -> FALSE
      [] v.t = "str"  -> v.s # ""
      [] v.t = "int"  -> v.n # 0
      [] v.t = "list" -> Len(v.l) > 0
      [] v.t = "dict" -> DOMAIN v.d # {}
      [] OTHER        -> TRUE

\* type(v).__name__
PyTypeName(v) ==
    CASE v.t = "none" -> "NoneType"
      [] v.t = "str"  -> "str"
      [] v.t = "int"  -> "int"
      [] v.t = "list" -> "list"
      [] v.t = "dict" -> "dict"
      [] OTHER        -> "object"

\* f"{v}" for the values that are formatted into messages
PyFormat(v) ==
    CASE v.t = "none" -> "None"
      [] v.t = "str"  -> v.s
      [] v.t = "int"  -> ToString(v.n)
      [] v.t = "list" -> "[...]"
      [] v.t = "dict" -> "{...}"
      [] OTHER        -> "?"

\* hashable values can be used as dictionary keys; list and dict cannot
Hashable(v) == v.t \notin {"list", "dict"}

\* Outcome of evaluating an expression: a value or a raised exception.
Ok(v) == [ok |-> TRUE, val |-> v]
Raise(type, msg) == [ok |-> FALSE, exc |-> [type |-> type, msg |-> msg]]

\* obj.get(key, default)
DictGet(obj, key, default) ==
    IF obj.t = "dict"
    THEN Ok(IF key \in DOMAIN obj.d THEN obj.d[key] ELSE default)
    ELSE Raise("AttributeError",
               "'" \o PyTypeName(obj) \o "' object has no attribute 'get'")

\* requests.RequestException and its subclasses
RequestExceptionTypes ==
    {"ConnectionError", "Timeout", "HTTPError", "requests.JSONDecodeError"}

IsRequestException(e) == e.type \in RequestExceptionTypes

\* Every exception the model raises derives from Exception.
IsException(e) == e.type \in RequestExceptionTypes \cup
    {"AttributeError", "KeyError", "TypeError", "ValueError",
     "json.JSONDecodeError", "sqlite3.Error", "pandas.DatabaseError",
     "ImportError"}

-----------------------------------------------------------------------------
(* HTTP replies of the model endpoint *)

ConnError == [kind |-> "raise", type |-> "ConnectionError",
              msg |-> "Connection refused"]
TimeoutError == [kind |-> "raise", type |-> "Timeout", msg |-> "Read timed out"]
HttpError == [kind |-> "raise", type |-> "HTTPError",
              msg |-> "500 Server Error"]
\* response.json() on a body that is not JSON: requests >= 2.27 raises its
\* own JSONDecodeError (a RequestException), older releases a ValueError.
BadJsonNew == [kind |-> "raise", type |-> "requests.JSONDecodeError",
               msg |-> "Expecting value: line 1 column 1 (char 0)"]
BadJsonOld == [kind |-> "raise", type |-> "ValueError",
               msg |-> "Expecting value: line 1 column 1 (char 0)"]
JsonReply(body) == [kind |-> "json", body |-> body]

TransportFailures == {ConnError, TimeoutError, HttpError, BadJsonNew, BadJsonOld}

\* requests.get/post(...); response.raise_for_status(); response.json()
HttpJson(reply) ==
    IF reply.kind = "raise" THEN Raise(reply.type, reply.msg)
    ELSE Ok(reply.body)

-----------------------------------------------------------------------------
(* tools.py: ToolRegistry *)

\* the schema register_tool builds for one tool
tool_schema(name, description, parameters) ==
    [type |-> "function",
     function |-> [name |-> name, description |-> description,
                   parameters |-> parameters]]

\* ToolRegistry.__init__
EmptyRegistry == [tools |-> <<>>, tool_functions |-> <<>>]

\* ToolRegistry.register_tool: append the schema, assign the function
register_tool(reg, name, description, parameters, func) ==
    [tools |-> Append(reg.tools, tool_schema(name, description, parameters)),
     tool_functions |->
        [k \in (DOMAIN reg.tool_functions) \cup {name} |->
            IF k = name THEN func ELSE reg.tool_functions[k]]]

\* ToolRegistry.get_tools
get_tools(reg) == reg.tools

\* ToolRegistry.get_tool_functions
get_tool_functions(reg) == reg.tool_functions

\* the parameter schema of a tool with one required string parameter
OneStringParam(p) ==
    [type |-> "object", properties |-> {p}, required |-> <<p>>]

\* the module-level registry: five register_tool calls at import time
registry ==
    LET r0 == EmptyRegistry
        r1 == register_tool(r0, "get_customers_by_country",
                "Retrieve a list of customers from a specified country",
                OneStringParam("country"), "get_customers_by_country")
        r2 == register_tool(r1, "get_orders_by_customer",
                "Retrieve all orders placed by a specific customer",
                OneStringParam("customer_id"), "get_orders_by_customer")
        r3 == register_tool(r2, "get_products_by_category",
                "Retrieve all products in a specific category",
                OneStringParam("category_name"), "get_products_by_category")
        r4 == register_tool(r3, "get_employees_by_region",
                "Retrieve all employees working in a specific region",
                OneStringParam("region"), "get_employees_by_region")
        r5 == register_tool(r4, "get_suppliers_by_country",
                "Retrieve all suppliers from a specified country",
                OneStringParam("country"), "get_suppliers_by_country")
    IN r5

\* get_tool_registry
get_tool_registry == registry

-----------------------------------------------------------------------------
(* tools.py: database connection and the five lookup functions *)

LookupFunctions ==
    {"get_customers_by_country", "get_orders_by_customer",
     "get_products_by_category", "get_employees_by_region",
     "get_suppliers_by_country"}

\* What the database does during one lookup call.
DbConnectError == [kind |-> "connect_error",
                   text |-> "unable to open database file"]
DbSqliteError == [kind |-> "sqlite_error", text |-> "database is locked"]
DbOtherError == [kind |-> "other_error",
                 text |-> "Execution failed on sql: no such table"]
DbEmpty == [kind |-> "empty", text |-> ""]
DbRows == [kind |-> "rows", text |-> "| CompanyName |"]
DbMarkdownError == [kind |-> "markdown_error",
                    text |-> "Missing optional dependency 'tabulate'"]
DbNotUsed == [kind |-> "not_used", text |-> ""]

DbOutcomes == {DbConnectError, DbSqliteError, DbOtherError, DbEmpty, DbRows,
               DbMarkdownError}

\* get_db_connection: a connection, or None on sqlite3.Error
get_db_connection(db) ==
    IF db.kind = "connect_error" THEN "none" ELSE "open"

\* one statement handed to the database: text and bound parameters
Statement(fn, sql, bound, arg) ==
    [fn |-> fn, sql |-> sql, bound |-> bound, arg |-> arg]

\* The body shared by the five lookup functions.  The result carries the
\* returned value or the raised exception, the state the connection is left
\* in, and the statements that were executed.
run_lookup(fn, sql, bound, arg, none_found, db) ==
    LET c == get_db_connection(db) IN
    IF c = "none"
    THEN [res |-> Ok(PyDict([error |-> PyStr("Database connection failed")])),
          conn |-> "none", stmts |-> {}]
    ELSE LET st == {Statement(fn, sql, bound, arg)} IN
         CASE db.kind = "sqlite_error" ->
                \* except sqlite3.Error: conn.close(); return {"error": ...}
                [res |-> Ok(PyDict([error |->
                            PyStr("Database error: " \o db.text)])),
                 conn |-> "closed", stmts |-> st]
           [] db.kind = "other_error" ->
                \* read_sql_query raises something that is no sqlite3.Error:
                \* no handler, conn.close() is not reached
                [res |-> Raise("pandas.DatabaseError", db.text),
                 conn |-> "open", stmts |-> st]
           [] db.kind = "empty" ->
                [res |-> Ok(PyList(<<PyStr(none_found)>>)),
                 conn |-> "closed", stmts |-> st]
           [] db.kind = "markdown_error" ->
                \* df.to_markdown raises after conn.close()
                [res |-> Raise("ImportError", db.text),
                 conn |-> "closed", stmts |-> st]
           [] OTHER ->
                [res |-> Ok(PyStr(db.text)), conn |-> "closed", stmts |-> st]

get_customers_by_country(country, db) ==
    run_lookup("get_customers_by_country",
        "SELECT CompanyName FROM Customers WHERE Country = ? LIMIT 10",
        <<country>>, country, "No customers found", db)

get_orders_by_customer(customer_id, db) ==
    run_lookup("get_orders_by_customer",
        "SELECT OrderID, OrderDate, ShipCountry FROM Orders WHERE CustomerID = ? LIMIT 5",
        <<customer_id>>, customer_id, "No orders found", db)

get_products_by_category(category_name, db) ==
    run_lookup("get_products_by_category",
        "SELECT p.ProductName, p.UnitPrice, c.CategoryName FROM Products p JOIN Categories c ON p.CategoryID = c.CategoryID WHERE c.CategoryName = ? LIMIT 10",
        <<category_name>>, category_name, "No products found", db)

get_employees_by_region(region, db) ==
    run_lookup("get_employees_by_region",
        "SELECT e.FirstName, e.LastName, r.RegionDescription FROM Employees e JOIN EmployeeTerritories et ON e.EmployeeID = et.EmployeeID JOIN Territories t ON et.TerritoryID = t.TerritoryID JOIN Regions r ON t.RegionID = r.RegionID WHERE r.RegionDescription = ? LIMIT 10",
        <<region>>, region, "No employees found", db)

\* get_suppliers_by_country with the country formatted into the query text
\* (sensitivity variant for C8)
get_suppliers_by_country_interpolated(country, db) ==
    run_lookup("get_suppliers_by_country",
        "SELECT CompanyName, ContactName, Country FROM Suppliers WHERE Country = '"
            \o PyFormat(country) \o "' LIMIT 10",
        <<>>, country, "No suppliers found", db)

get_suppliers_by_country(country, db) ==
    run_lookup("get_suppliers_by_country",
        "SELECT CompanyName, ContactName, Country FROM Suppliers WHERE Country = ? LIMIT 10",
        <<country>>, country, "No suppliers found", db)

\* the name of the single parameter of each lookup function
ParameterName(func) ==
    CASE func = "get_customers_by_country" -> "country"
      [] func = "get_orders_by_customer"   -> "customer_id"
      [] func = "get_products_by_category" -> "category_name"
      [] func = "get_employees_by_region"  -> "region"
      [] func = "get_suppliers_by_country" -> "country"

\* func(arg): the function object called with one argument
Apply(func, arg, db) ==
    CASE func = "get_customers_by_country" -> get_customers_by_country(arg, db)
      [] func = "get_orders_by_customer"   -> get_orders_by_customer(arg, db)
      [] func = "get_products_by_category" -> get_products_by_category(arg, db)
      [] func = "get_employees_by_region"  -> get_employees_by_region(arg, db)
      [] func = "get_suppliers_by_country" -> get_suppliers_by_country(arg, db)

\* func(**kwargs): keyword expansion binds the single parameter or raises
\* TypeError before the body runs
CallWithKeywords(func, kwargs, db) ==
    IF kwargs.t # "dict"
    THEN [res |-> Raise("TypeError",
                    "argument after ** must be a mapping, not "
                        \o PyTypeName(kwargs)),
          conn |-> "none", stmts |-> {}]
    ELSE IF DOMAIN kwargs.d \ {ParameterName(func)} # {}
    THEN [res |-> Raise("TypeError",
                    "got an unexpected keyword argument '"
                        \o (CHOOSE k \in DOMAIN kwargs.d :
                                k # ParameterName(func)) \o "'"),
          conn |-> "none", stmts |-> {}]
    ELSE IF ParameterName(func) \notin DOMAIN kwargs.d
    THEN [res |-> Raise("TypeError",
                    "missing 1 required positional argument: '"
                        \o ParameterName(func) \o "'"),
          conn |-> "none", stmts |-> {}]
    ELSE Apply(func, kwargs.d[ParameterName(func)], db)

-----------------------------------------------------------------------------
(* Queries: words separated by single blanks.  "from" and "customers" occur *)
(* in the vocabulary only as whole words, so substring tests and split are  *)
(* decided word by word.                                                    *)

Variants == {"main", "old_app"}

Queries ==
    { <<"List", "all", "customers", "from", "France">>,
      <<"Customers", "FROM", "Germany">>,
      <<"Get", "suppliers", "from", "Germany">>,
      <<"Hello">> }

\* str.lower() of one word
LowerWord(w) ==
    CASE w = "List"      -> "list"
      [] w = "Customers" -> "customers"
      [] w = "FROM"      -> "from"
      [] w = "France"    -> "france"
      [] w = "Germany"   -> "germany"
      [] w = "Get"       -> "get"
      [] w = "Hello"     -> "hello"
      [] OTHER           -> w

\* query.lower()
Lower(q) == [i \in 1..Len(q) |-> LowerWord(q[i])]

\* "customers from" in text
ContainsCustomersFrom(text) ==
    \E i \in 1..(Len(text) - 1) : text[i] = "customers" /\ text[i + 1] = "from"

\* query.split("from")[-1]: what follows the last "from", the whole query
\* when there is none
AfterLastFrom(q) ==
    LET hits == {i \in 1..Len(q) : q[i] = "from"} IN
    IF hits = {} THEN q
    ELSE LET last == CHOOSE i \in hits : \A j \in hits : j <= i
         IN SubSeq(q, last + 1, Len(q))

RECURSIVE JoinWords(_)
\* the words as one string without leading or trailing blanks (strip)
JoinWords(ws) ==
    IF Len(ws) = 0 THEN ""
    ELSE IF Len(ws) = 1 THEN ws[1]
    ELSE ws[1] \o " " \o JoinWords(Tail(ws))

-----------------------------------------------------------------------------
(* main.py / old_app.py: the orchestrator *)

\* MODEL
MODEL(v) == IF v = "main" THEN "llama3.2" ELSE "qwen2.5"

NoToolMessage ==
    "No specific tool required for this query. Please refine your query or check tool availability."

\* [model["name"] for model in models]
ModelNames(models) ==
    CASE models.t = "list" ->
            LET bad == {i \in 1..Len(models.l) :
                          \/ models.l[i].t # "dict"
                          \/ "name" \notin DOMAIN models.l[i].d}
            IN IF bad = {}
               THEN Ok([i \in 1..Len(models.l) |-> models.l[i].d["name"]])
               ELSE LET k == CHOOSE i \in bad : \A j \in bad : i <= j
                    IN IF models.l[k].t = "dict"
                       THEN Raise("KeyError", "'name'")
                       ELSE Raise("TypeError", "'" \o PyTypeName(models.l[k])
                                    \o "' object is not subscriptable")
      [] models.t = "dict" /\ DOMAIN models.d = {} -> Ok(<<>>)
      [] models.t = "dict" ->
            Raise("TypeError", "string indices must be integers")
      [] OTHER ->
            Raise("TypeError", "'" \o PyTypeName(models)
                                   \o "' object is not iterable")

\* check_ollama with the handler returning True: a failed request counts as
\* an available model (sensitivity variant for C2)
check_ollama_trusting(v, reply) ==
    LET r == HttpJson(reply) IN
    IF ~r.ok
    THEN IF IsRequestException(r.exc) THEN Ok(TRUE) ELSE r
    ELSE LET m == DictGet(r.val, "models", PyList(<<>>)) IN
         IF ~m.ok THEN m
         ELSE LET names == ModelNames(m.val) IN
              IF ~names.ok THEN names ELSE Ok(TRUE)

\* check_ollama: TRUE / FALSE, or the exception that escapes it
check_ollama(v, reply) ==
    LET r == HttpJson(reply) IN
    IF ~r.ok
    THEN IF IsRequestException(r.exc) THEN Ok(FALSE) ELSE r
    ELSE LET m == DictGet(r.val, "models", PyList(<<>>)) IN
         IF ~m.ok THEN m
         ELSE LET names == ModelNames(m.val) IN
              IF ~names.ok THEN names
              ELSE Ok(\E i \in 1..Len(names.val) :
                          names.val[i] = PyStr(MODEL(v) \o ":latest"))

\* what get_tool_call returns: (tool_name, params)
Returned(name, args) == Ok([tool_name |-> name, params |-> args])

\* json.loads on the argument strings the endpoint sends
JsonLoads(s) ==
    CASE s = "{\"country\": \"France\"}" ->
            Ok(PyDict([country |-> PyStr("France")]))
      [] s = "[\"France\"]" -> Ok(PyList(<<PyStr("France")>>))
      [] s = "null" -> Ok(PyNone)
      [] s = "{country: France}" ->
            Raise("json.JSONDecodeError",
                  "Expecting property name enclosed in double quotes: line 1 column 2 (char 1)")
      [] OTHER ->
            Raise("json.JSONDecodeError",
                  "Expecting value: line 1 column 1 (char 0)")

\* tool_calls[-1] in place of tool_calls[0] (sensitivity variant for C10)
LastOf(v) ==
    CASE v.t = "list" -> Ok(v.l[Len(v.l)])
      [] v.t = "dict" -> Raise("KeyError", "-1")
      [] v.t = "int"  -> Raise("TypeError", "'int' object is not subscriptable")

\* tool_calls[0] for a truthy tool_calls (a list, a dict or a number in the
\* bounded reply set)
FirstOf(v) ==
    CASE v.t = "list" -> Ok(v.l[1])
      [] v.t = "dict" -> Raise("KeyError", "0")
      [] v.t = "int"  -> Raise("TypeError", "'int' object is not subscriptable")

\* the old_app.py fallback parsing carried into main.py as well
\* (sensitivity variant for C3)
no_tool_calls_any_variant(v, q) ==
    IF ContainsCustomersFrom(Lower(q))
    THEN Returned(PyStr("get_customers_by_country"),
                  PyDict([country |-> PyStr(JoinWords(AfterLastFrom(q)))]))
    ELSE Returned(PyNone, PyDict([message |-> PyStr(NoToolMessage)]))

\* get_tool_call, the branch taken when the reply holds no tool call
no_tool_calls(v, q) ==
    IF v = "old_app" /\ ContainsCustomersFrom(Lower(q))
    THEN \* old_app.py: fallback parsing of the query
         Returned(PyStr("get_customers_by_country"),
                  PyDict([country |-> PyStr(JoinWords(AfterLastFrom(q)))]))
    ELSE Returned(PyNone, PyDict([message |-> PyStr(NoToolMessage)]))

\* get_tool_call when check_ollama returned False
get_tool_call_unavailable(v) ==
    Returned(PyNone,
        PyDict([error |-> PyStr("Ollama API or model " \o MODEL(v)
                                   \o " unavailable")]))

\* get_tool_call from the tool-selection request on
get_tool_call(v, q, reply) ==
    LET r == HttpJson(reply) IN
    IF ~r.ok
    THEN IF IsRequestException(r.exc)
         THEN Returned(PyNone, PyDict([error |-> PyStr(r.exc.msg)]))
         ELSE r
    ELSE
    LET message == DictGet(r.val, "message", EmptyDict) IN
    IF ~message.ok THEN message ELSE
    LET tool_calls == DictGet(message.val, "tool_calls", PyList(<<>>)) IN
    IF ~tool_calls.ok THEN tool_calls ELSE
    IF ~Truthy(tool_calls.val) THEN no_tool_calls(v, q) ELSE
    LET tool_call == FirstOf(tool_calls.val) IN
    IF ~tool_call.ok THEN tool_call ELSE
    LET function == DictGet(tool_call.val, "function", EmptyDict) IN
    IF ~function.ok THEN function ELSE
    LET name == DictGet(function.val, "name", PyNone)
        arguments == DictGet(function.val, "arguments", EmptyDict)
    IN
    IF ~name.ok THEN name ELSE
    IF arguments.val.t = "str"
    THEN LET parsed == JsonLoads(arguments.val.s) IN
         IF parsed.ok THEN Returned(name.val, parsed.val)
         ELSE Raise("ValueError",
                    "Failed to parse arguments: " \o parsed.exc.msg)
    ELSE IF arguments.val.t # "dict"
    THEN Returned(PyNone,
            PyDict([error |-> PyStr("Invalid arguments type: <class '"
                        \o PyTypeName(arguments.val) \o "'>")]))
    ELSE Returned(name.val, arguments.val)

\* call_mcp_tool without the membership test: tool_functions[tool_name]
\* raises KeyError for a name that is not registered (sensitivity variant
\* for C6)
call_mcp_tool_unchecked(name, kwargs, reg, db) ==
    LET fs == get_tool_functions(reg) IN
    IF ~Hashable(name)
    THEN [res |-> Raise("TypeError",
                    "unhashable type: '" \o PyTypeName(name) \o "'"),
          called |-> <<>>, conn |-> "none", stmts |-> {}]
    ELSE IF name.t = "str" /\ name.s \in DOMAIN fs
    THEN LET c == CallWithKeywords(fs[name.s], kwargs, db) IN
         [res |-> IF c.res.ok THEN c.res
                  ELSE Ok(PyDict([error |->
                        PyStr("Tool execution failed: " \o c.res.exc.msg)])),
          called |-> <<fs[name.s]>>, conn |-> c.conn, stmts |-> c.stmts]
    ELSE [res |-> Raise("KeyError", "'" \o PyFormat(name) \o "'"),
          called |-> <<>>, conn |-> "none", stmts |-> {}]

\* call_mcp_tool: the value returned or the exception that escapes, with the
\* function that was called (if any) and what the call did to the database
call_mcp_tool(name, kwargs, reg, db) ==
    LET fs == get_tool_functions(reg) IN
    IF ~Hashable(name)
    THEN [res |-> Raise("TypeError",
                    "unhashable type: '" \o PyTypeName(name) \o "'"),
          called |-> <<>>, conn |-> "none", stmts |-> {}]
    ELSE IF name.t = "str" /\ name.s \in DOMAIN fs
    THEN LET c == CallWithKeywords(fs[name.s], kwargs, db) IN
         [res |-> IF c.res.ok THEN c.res
                  ELSE Ok(PyDict([error |->
                        PyStr("Tool execution failed: " \o c.res.exc.msg)])),
          called |-> <<fs[name.s]>>, conn |-> c.conn, stmts |-> c.stmts]
    ELSE [res |-> Ok(PyDict([error |->
                        PyStr("Unknown tool: " \o PyFormat(name))])),
          called |-> <<>>, conn |-> "none", stmts |-> {}]

\* the error-record test looking for the key "message"
\* (sensitivity variant for C7)
IsErrorRecordWrongKey(v) == v.t = "dict" /\ "message" \in DOMAIN v.d

\* isinstance(tool_response, dict) and "error" in tool_response
IsErrorRecord(v) == v.t = "dict" /\ "error" \in DOMAIN v.d

\* get_final_response for a tool response that is no error record
get_final_response(reply) ==
    LET r == HttpJson(reply) IN
    IF ~r.ok
    THEN IF IsRequestException(r.exc)
         THEN Ok(PyStr("Error generating final response: " \o r.exc.msg))
         ELSE r
    ELSE LET message == DictGet(r.val, "message", EmptyDict) IN
         IF ~message.ok THEN message
         ELSE DictGet(message.val, "content", PyStr("No content returned"))

\* the else branch falling back on the error text of the record:
\* params.get("message", params.get("error", ...))
\* (sensitivity variant for C12)
unable_to_process_reporting(p) ==
    IF p.t = "dict" /\ "message" \notin DOMAIN p.d /\ "error" \in DOMAIN p.d
    THEN Ok(p.d["error"])
    ELSE DictGet(p, "message", PyStr("Unable to process query"))

\* process_query, the else branch: params.get("message", ...)
unable_to_process(p) ==
    DictGet(p, "message", PyStr("Unable to process query"))

\* process_query catching requests.RequestException only
\* (sensitivity variant for C4)
process_query_result_narrow(outcome) ==
    IF outcome.ok THEN [final_response |-> outcome.val, raised |-> FALSE]
    ELSE IF IsRequestException(outcome.exc)
    THEN [final_response |->
             PyStr("Error processing query: " \o outcome.exc.msg),
          raised |-> FALSE]
    ELSE [final_response |-> Unset, raised |-> TRUE]

\* process_query, try/except around the pipeline: what the caller receives
\* for the outcome of the pipeline
process_query_result(outcome) ==
    IF outcome.ok THEN [final_response |-> outcome.val, raised |-> FALSE]
    ELSE IF IsException(outcome.exc)
    THEN [final_response |->
             PyStr("Error processing query: " \o outcome.exc.msg),
          raised |-> FALSE]
    ELSE [final_response |-> Unset, raised |-> TRUE]

-----------------------------------------------------------------------------
(* Replies the model endpoint can give *)

\* GET /api/tags: {"models": [{"name": ...}, ...]}
TagsBody(names) ==
    PyDict([models |->
        PyList([i \in 1..Len(names) |-> PyDict([name |-> PyStr(names[i])])])])

TagsReplies ==
    TransportFailures \cup
    { JsonReply(TagsBody(ns)) :
        ns \in { <<>>, <<"llama3.2:latest">>, <<"qwen2.5:latest">>,
                 <<"mistral:latest", "llama3.2:latest", "qwen2.5:latest">>,
                 <<"llama3.2">> } } \cup
    { JsonReply(EmptyDict),                              \* no "models" field
      JsonReply(PyList(<<>>)),                           \* body is a list
      JsonReply(PyDict([models |-> PyNone])),            \* models is null
      JsonReply(PyDict([models |-> PyList(<<EmptyDict>>)])) } \* no "name"

\* tool names the endpoint may select
SelectedNames ==
    { PyStr(f) : f \in LookupFunctions } \cup
    { PyStr("drop_tables"), PyStr(""), PyNone, PyInt(7),
      PyList(<<PyStr("get_customers_by_country")>>) }

\* argument payloads the endpoint may send
SelectedArguments ==
    { PyDict([country |-> PyStr("France")]),
      PyDict([country |-> PyStr("x' OR '1'='1")]),
      PyDict([customer_id |-> PyStr("VINET")]),
      PyDict([category_name |-> PyStr("Beverages")]),
      PyDict([region |-> PyStr("Eastern")]),
      PyDict([country |-> PyStr("France"), limit |-> PyInt(5)]),
      PyDict([message |-> PyStr("hello")]),
      PyDict([message |-> PyInt(42)]),
      EmptyDict,
      PyStr("{\"country\": \"France\"}"),
      PyStr("[\"France\"]"),
      PyStr("null"),
      PyStr("{country: France}"),
      PyStr(""),
      PyList(<<PyStr("France")>>),
      PyInt(3),
      PyNone }

\* {"function": {"name": ..., "arguments": ...}}
ToolCall(name, arguments) ==
    PyDict([function |-> PyDict([name |-> name, arguments |-> arguments])])

\* {"message": {"tool_calls": ...}}
SelectionBody(tool_calls) ==
    PyDict([message |-> PyDict([tool_calls |-> tool_calls])])

SelectionReplies ==
    TransportFailures \cup
    { JsonReply(SelectionBody(PyList(<<ToolCall(n, a)>>))) :
        n \in SelectedNames, a \in SelectedArguments } \cup
    { JsonReply(SelectionBody(PyList(<<
          ToolCall(PyStr("get_orders_by_customer"),
                   PyDict([customer_id |-> PyStr("VINET")])),
          ToolCall(PyStr("get_customers_by_country"),
                   PyDict([country |-> PyStr("France")]))>>))),
      JsonReply(SelectionBody(PyList(<<>>))),            \* empty tool_calls
      JsonReply(SelectionBody(PyNone)),                  \* tool_calls null
      JsonReply(PyDict([message |->
          PyDict([content |-> PyStr("Hi")])])),          \* no tool_calls
      JsonReply(EmptyDict),                              \* no message
      JsonReply(PyDict([message |-> PyNone])),           \* message null
      JsonReply(PyList(<<>>)),                           \* body is a list
      JsonReply(SelectionBody(PyInt(1))),
      JsonReply(SelectionBody(PyDict([function |-> EmptyDict]))),
      JsonReply(SelectionBody(PyList(<<PyStr("x")>>))),  \* call is a string
      JsonReply(SelectionBody(PyList(<<EmptyDict>>))),   \* no function
      JsonReply(SelectionBody(PyList(<<
          PyDict([function |-> PyDict([name |->
              PyStr("get_customers_by_country")])])>>))) } \* no arguments

\* {"message": {"content": ...}}
PhrasingReplies ==
    TransportFailures \cup
    { JsonReply(PyDict([message |-> PyDict([content |-> PyStr("Answer")])])),
      JsonReply(PyDict([message |-> PyDict([content |-> PyStr("")])])),
      JsonReply(PyDict([message |-> PyDict([content |-> PyNone])])),
      JsonReply(PyDict([message |-> PyDict([content |-> PyInt(1)])])),
      JsonReply(PyDict([message |-> EmptyDict])),        \* no content
      JsonReply(EmptyDict),                              \* no message
      JsonReply(PyDict([message |-> PyNone])),           \* message null
      JsonReply(PyList(<<>>)) }                          \* body is a list

-----------------------------------------------------------------------------
(* The state machine *)

\* the registry object handed to process_query
tool_registry == [tools |-> tools, tool_functions |-> tool_functions]

NoRun ==
    /\ variant = "main"
    /\ query = <<>>
    /\ pc = "idle"
    /\ tags_reply = Unset
    /\ select_reply = Unset
    /\ tool_name = Unset
    /\ params = Unset
    /\ db_env = DbNotUsed
    /\ tool_response = Unset
    /\ final_response = Unset
    /\ raised = FALSE
    /\ events = <<>>
    /\ invoked = <<>>

\* The state after tools.py was imported: the registry holds the five tools
Init ==
    /\ tools = get_tools(get_tool_registry)
    /\ tool_functions = get_tool_functions(get_tool_registry)
    /\ NoRun
    /\ conn = "none"
    /\ executed = {}
    /\ lookup_result = Unset

\* process_query is called (the driver loop in __main__)
StartQuery(v, q) ==
    /\ pc = "idle"
    /\ variant' = v
    /\ query' = q
    /\ pc' = "check_ollama"
    /\ UNCHANGED <<registryVars, tags_reply, select_reply, tool_name, params,
                   db_env, tool_response, final_response, raised, events,
                   invoked, conn, executed, lookup_result>>

\* process_query ends with the given outcome of its pipeline
Ends(outcome) ==
    /\ pc' = "done"
    /\ final_response' = process_query_result(outcome).final_response
    /\ raised' = process_query_result(outcome).raised

\* process_query once get_tool_call has ended with outcome g:
\* if tool_name: ... else: params.get("message", "Unable to process query")
AfterGetToolCall(g) ==
    IF ~g.ok
    THEN /\ Ends(g)
         /\ UNCHANGED <<tool_name, params>>
    ELSE /\ tool_name' = g.val.tool_name
         /\ params' = g.val.params
         /\ IF Truthy(g.val.tool_name)
            THEN /\ pc' = "call_mcp_tool"
                 /\ UNCHANGED <<final_response, raised>>
            ELSE Ends(unable_to_process(g.val.params))

\* get_tool_call up to the availability gate
CheckOllama(reply) ==
    /\ pc = "check_ollama"
    /\ events' = Append(events, "check_ollama")
    /\ LET c == check_ollama(variant, reply) IN
       /\ tags_reply' = reply
       /\ IF ~c.ok THEN AfterGetToolCall(c)
          ELSE IF c.val
          THEN /\ pc' = "tool_selection"
               /\ UNCHANGED <<tool_name, params, final_response, raised>>
          ELSE AfterGetToolCall(get_tool_call_unavailable(variant))
    /\ UNCHANGED <<registryVars, variant, query, select_reply, db_env,
                   tool_response, invoked, conn, executed, lookup_result>>

\* get_tool_call from the tool-selection request to its return
ToolSelection(reply) ==
    /\ pc = "tool_selection"
    /\ events' = Append(events, "tool_selection")
    /\ select_reply' = reply
    /\ AfterGetToolCall(get_tool_call(variant, query, reply))
    /\ UNCHANGED <<registryVars, variant, query, tags_reply, db_env,
                   tool_response, invoked, conn, executed, lookup_result>>

\* the keyword expansion reaches the body of the function
BodyEntered(func, kwargs) ==
    kwargs.t = "dict" /\ DOMAIN kwargs.d = {ParameterName(func)}

\* call_mcp_tool taking the function out of the mapping with
\* tool_functions.pop(tool_name) in place of tool_functions[tool_name]
\* (sensitivity variant for C11)
CallMcpToolPopping(db) ==
    /\ pc = "call_mcp_tool"
    /\ LET c == call_mcp_tool(tool_name, params, tool_registry, db)
           entered == c.called # <<>> /\ BodyEntered(c.called[1], params)
       IN
       /\ invoked' = invoked \o c.called
       /\ events' = IF c.called # <<>>
                    THEN Append(events, "tool_invocation") ELSE events
       /\ db_env' = IF entered THEN db ELSE db_env
       /\ conn' = IF entered THEN c.conn ELSE conn
       /\ executed' = executed \cup c.stmts
       /\ tool_functions' =
             IF c.called # <<>>
             THEN [k \in (DOMAIN tool_functions) \ {tool_name.s} |->
                      tool_functions[k]]
             ELSE tool_functions
       /\ IF ~c.res.ok
          THEN /\ Ends(c.res)
               /\ UNCHANGED tool_response
          ELSE /\ tool_response' = c.res.val
               /\ IF IsErrorRecord(c.res.val)
                  THEN Ends(Ok(c.res.val.d["error"]))
                  ELSE /\ pc' = "final_response"
                       /\ UNCHANGED <<final_response, raised>>
    /\ UNCHANGED <<tools, variant, query, tags_reply, select_reply,
                   tool_name, params, lookup_result>>

\* call_mcp_tool, then get_final_response up to its error-record test
CallMcpTool(db) ==
    /\ pc = "call_mcp_tool"
    /\ LET c == call_mcp_tool(tool_name, params, tool_registry, db)
           entered == c.called # <<>> /\ BodyEntered(c.called[1], params)
       IN
       /\ invoked' = invoked \o c.called
       /\ events' = IF c.called # <<>>
                    THEN Append(events, "tool_invocation") ELSE events
       /\ db_env' = IF entered THEN db ELSE db_env
       /\ conn' = IF entered THEN c.conn ELSE conn
       /\ executed' = executed \cup c.stmts
       /\ IF ~c.res.ok
          THEN /\ Ends(c.res)
               /\ UNCHANGED tool_response
          ELSE /\ tool_response' = c.res.val
               /\ IF IsErrorRecord(c.res.val)
                  THEN Ends(Ok(c.res.val.d["error"]))
                  ELSE /\ pc' = "final_response"
                       /\ UNCHANGED <<final_response, raised>>
    /\ UNCHANGED <<registryVars, variant, query, tags_reply, select_reply,
                   tool_name, params, lookup_result>>

\* get_final_response from the phrasing request on
GetFinalResponse(reply) ==
    /\ pc = "final_response"
    /\ events' = Append(events, "answer_phrasing")
    /\ Ends(get_final_response(reply))
    /\ UNCHANGED <<registryVars, variant, query, tags_reply, select_reply,
                   tool_name, params, db_env, tool_response, invoked, conn,
                   executed, lookup_result>>

\* the caller has received the result; the run's locals are gone
Return ==
    /\ pc = "done"
    /\ variant' = "main"
    /\ query' = <<>>
    /\ pc' = "idle"
    /\ tags_reply' = Unset
    /\ select_reply' = Unset
    /\ tool_name' = Unset
    /\ params' = Unset
    /\ db_env' = DbNotUsed
    /\ tool_response' = Unset
    /\ final_response' = Unset
    /\ raised' = FALSE
    /\ events' = <<>>
    /\ invoked' = <<>>
    /\ executed' = {}
    /\ UNCHANGED <<registryVars, conn, lookup_result>>

Next ==
    \/ \E v \in Variants, q \in Queries : StartQuery(v, q)
    \/ \E reply \in TagsReplies : CheckOllama(reply)
    \/ \E reply \in SelectionReplies : ToolSelection(reply)
    \/ \E db \in DbOutcomes : CallMcpTool(db)
    \/ \E reply \in PhrasingReplies : GetFinalResponse(reply)
    \/ Return

Spec == Init /\ [][Next]_vars

-----------------------------------------------------------------------------
(* A fresh registry filled by arbitrary register_tool calls *)

RegisteredNames == {"get_customers_by_country", "get_orders_by_customer",
                    "lookup"}

RegisteredFunctions == {"get_customers_by_country", "get_orders_by_customer"}

\* the state after ToolRegistry() was constructed
InitRegistry ==
    /\ tools = EmptyRegistry.tools
    /\ tool_functions = EmptyRegistry.tool_functions
    /\ NoRun
    /\ conn = "none"
    /\ executed = {}
    /\ lookup_result = Unset

\* registry.register_tool(name, description, parameters, func)
RegisterTool(name, func) ==
    /\ pc = "idle"
    /\ Len(tools) < MaxRegistrations
    /\ LET r == register_tool(tool_registry, name, "Tool " \o name,
                              OneStringParam(ParameterName(func)), func)
       IN /\ tools' = get_tools(r)
          /\ tool_functions' = get_tool_functions(r)
    /\ UNCHANGED <<runVars, conn, executed, lookup_result>>

NextRegistry ==
    \E name \in RegisteredNames, func \in RegisteredFunctions :
        RegisterTool(name, func)

SpecRegistry == InitRegistry /\ [][NextRegistry]_vars

-----------------------------------------------------------------------------
(* The lookup functions called directly *)

LookupArguments == {PyStr("France"), PyStr("x' OR '1'='1")}

\* func(arg) called by any caller of tools.py
CallLookup(func, arg, db) ==
    /\ pc = "idle"
    /\ LET r == Apply(func, arg, db) IN
       /\ Cardinality(executed \cup r.stmts) <= MaxStatements
       /\ executed' = executed \cup r.stmts
       /\ conn' = r.conn
       /\ lookup_result' = [func |-> func, arg |-> arg, res |-> r.res]
    /\ db_env' = db
    /\ UNCHANGED <<registryVars, variant, query, pc, tags_reply, select_reply,
                   tool_name, params, tool_response, final_response, raised,
                   events, invoked>>

NextLookup ==
    \E func \in LookupFunctions, arg \in LookupArguments, db \in DbOutcomes :
        CallLookup(func, arg, db)

SpecLookup == Init /\ [][NextLookup]_vars

-----------------------------------------------------------------------------
(* Vocabulary of the properties *)

\* the order of the external steps of one process_query run
StepOrder ==
    <<"check_ollama", "tool_selection", "tool_invocation", "answer_phrasing">>

IsPrefix(s, t) ==
    Len(s) <= Len(t) /\ \A i \in 1..Len(s) : s[i] = t[i]

Sent(step) == \E i \in 1..Len(events) : events[i] = step

\* the request for the model list failed: no connection, timeout, HTTP error
EndpointUnreachable(reply) == reply \in {ConnError, TimeoutError, HttpError}

\* the reply is a list of models (possibly absent) without the model of v
ModelMissing(v, reply) ==
    /\ reply.kind = "json"
    /\ reply.body.t = "dict"
    /\ \/ "models" \notin DOMAIN reply.body.d
       \/ /\ reply.body.d.models.t = "list"
          /\ \A i \in 1..Len(reply.body.d.models.l) :
                LET e == reply.body.d.models.l[i] IN
                /\ e.t = "dict"
                /\ "name" \in DOMAIN e.d
                /\ e.d.name # PyStr(MODEL(v) \o ":latest")

AvailabilityCheckFails(v, reply) ==
    EndpointUnreachable(reply) \/ ModelMissing(v, reply)

\* the tool-selection reply has no tool call: tool_calls missing, null or empty
NoToolCall(reply) ==
    /\ reply.kind = "json"
    /\ reply.body.t = "dict"
    /\ \/ "message" \notin DOMAIN reply.body.d
       \/ /\ reply.body.d.message.t = "dict"
          /\ \/ "tool_calls" \notin DOMAIN reply.body.d.message.d
             \/ reply.body.d.message.d.tool_calls \in {PyNone, PyList(<<>>)}

\* the tool-selection reply has a first tool call with a function object
HasToolCall(reply) ==
    /\ reply.kind = "json"
    /\ reply.body.t = "dict"
    /\ "message" \in DOMAIN reply.body.d
    /\ reply.body.d.message.t = "dict"
    /\ "tool_calls" \in DOMAIN reply.body.d.message.d
    /\ reply.body.d.message.d.tool_calls.t = "list"
    /\ Len(reply.body.d.message.d.tool_calls.l) > 0
    /\ reply.body.d.message.d.tool_calls.l[1].t = "dict"
    /\ "function" \in DOMAIN reply.body.d.message.d.tool_calls.l[1].d
    /\ reply.body.d.message.d.tool_calls.l[1].d.function.t = "dict"

FirstFunction(reply) == reply.body.d.message.d.tool_calls.l[1].d.function

\* argument strings that are not JSON documents
MalformedJson == {"{country: France}", ""}

MalformedArguments(reply) ==
    /\ HasToolCall(reply)
    /\ "arguments" \in DOMAIN FirstFunction(reply).d
    /\ FirstFunction(reply).d.arguments \in {PyStr(s) : s \in MalformedJson}

ParseFailureReports ==
    { PyStr("Error processing query: Failed to parse arguments: " \o m) :
        m \in { "Expecting property name enclosed in double quotes: line 1 column 2 (char 1)",
                "Expecting value: line 1 column 1 (char 0)" } }

\* a mapping with the key "error"
HasErrorKey(v) == v.t = "dict" /\ "error" \in DOMAIN v.d

\* the run reached call_mcp_tool and left it
ToolStepOver == pc \in {"final_response", "done"} /\ tool_name # Unset
                    /\ Truthy(tool_name)

NoLookup == invoked = <<>> /\ db_env = DbNotUsed /\ executed = {}

-----------------------------------------------------------------------------
(* Properties *)

\* C1: process_query always returns to its caller without raising, and the
\* value it returns is a string.
C1_AlwaysReturnsString ==
    pc = "done" => (~raised /\ final_response.t = "str")

\* C2: when the availability check fails (endpoint unreachable or the model
\* not in the model list) the run ends at once with the error result, having
\* sent no chat request and invoked no lookup function.
C2_UnavailableShortCircuits ==
    (tags_reply # Unset /\ AvailabilityCheckFails(variant, tags_reply)) =>
        /\ pc = "done"
        /\ ~raised
        /\ final_response = PyStr("Unable to process query")
        /\ events = <<"check_ollama">>
        /\ select_reply = Unset
        /\ NoLookup

C2_Witness ==
    /\ pc = "done"
    /\ tags_reply = JsonReply(TagsBody(<<"qwen2.5:latest">>))
    /\ variant = "main"
    /\ events = <<"check_ollama">>

\* C3 as stated: in both variants a tool-selection reply without a tool call
\* ends the run with the fallback message and without any lookup.
C3_FallbackInBothVariants ==
    (select_reply # Unset /\ NoToolCall(select_reply)) =>
        /\ pc = "done"
        /\ final_response = PyStr(NoToolMessage)
        /\ NoLookup

\* C3 amended: a tool-selection reply without a tool call ends the run with
\* the fallback message and without any lookup in main.py, and in old_app.py
\* unless the lower-cased query contains "customers from"; for such a query
\* old_app.py selects get_customers_by_country with the text after the last
\* "from" as the country.
C3_FallbackUnlessParsed ==
    (select_reply # Unset /\ NoToolCall(select_reply)) =>
        IF variant = "main" \/ ~ContainsCustomersFrom(Lower(query))
        THEN /\ pc = "done"
             /\ ~raised
             /\ final_response = PyStr(NoToolMessage)
             /\ NoLookup
             /\ ~Sent("answer_phrasing")
        ELSE /\ tool_name = PyStr("get_customers_by_country")
             /\ params =
                  PyDict([country |-> PyStr(JoinWords(AfterLastFrom(query)))])

C3_Witness ==
    /\ pc = "done"
    /\ select_reply = JsonReply(SelectionBody(PyList(<<>>)))
    /\ variant = "old_app"
    /\ query = <<"Get", "suppliers", "from", "Germany">>
    /\ final_response = PyStr(NoToolMessage)

\* C4: when the arguments of the first tool call are a string that is not
\* JSON, the run ends by returning a message that reports the parse failure:
\* nothing is raised, no tool is invoked, no phrasing request is sent and the
\* tool-selection request is not sent again.
C4_ParseFailureReported ==
    (select_reply # Unset /\ MalformedArguments(select_reply)) =>
        /\ pc = "done"
        /\ ~raised
        /\ final_response \in ParseFailureReports
        /\ events = <<"check_ollama", "tool_selection">>
        /\ NoLookup

C4_Witness ==
    /\ pc = "done"
    /\ select_reply # Unset
    /\ MalformedArguments(select_reply)
    /\ FirstFunction(select_reply).d.name = PyStr("get_customers_by_country")
    /\ final_response \in ParseFailureReports

\* C5: a lookup function returns the record {error: "Database error: ..."}
\* when the database raises during the query, and whatever way it exits the
\* connection it opened is closed.
C5_ClosedOnEveryExit ==
    lookup_result # Unset =>
        /\ db_env.kind = "sqlite_error" =>
              lookup_result.res =
                 Ok(PyDict([error |->
                        PyStr("Database error: " \o db_env.text)]))
        /\ db_env.kind # "connect_error" => conn = "closed"

C7_ErrorRecordSkipsPhrasing ==
    /\ (tool_response # Unset /\ HasErrorKey(tool_response)) =>
          /\ pc = "done"
          /\ ~raised
          /\ final_response = tool_response.d["error"]
          /\ ~Sent("answer_phrasing")
    /\ Sent("answer_phrasing") =>
          (tool_response # Unset /\ ~HasErrorKey(tool_response))

C7_Witness ==
    /\ pc = "done"
    /\ db_env = DbSqliteError
    /\ tool_response =
          PyDict([error |-> PyStr("Database error: database is locked")])
    /\ final_response = PyStr("Database error: database is locked")

\* C8: every statement a lookup function executes has the text of that
\* function's fixed template: two calls of one function execute the same
\* text whatever the parameter values, and the value is passed as the single
\* bound parameter.
C8_FixedQueryText ==
    /\ \A s1 \in executed, s2 \in executed :
          s1.fn = s2.fn => s1.sql = s2.sql
    /\ \A st \in executed : st.bound = <<st.arg>>

C8_Witness ==
    /\ \E s1 \in executed, s2 \in executed :
          /\ s1.fn = s2.fn
          /\ s1.arg = PyStr("France")
          /\ s2.arg = PyStr("x' OR '1'='1")
    /\ lookup_result # Unset

\* C9: every tool name appears in at most one descriptor of get_tools().
C9_NamesUnique ==
    \A i \in 1..Len(tools), j \in 1..Len(tools) :
        tools[i].function.name = tools[j].function.name => i = j

\* C10: the external steps of a run occur only in the order availability
\* check, tool-selection request, tool invocation, phrasing request, each at
\* most once and none without its predecessors; at most one function is
\* invoked, the one named by the first tool call of the reply.
C10_StepsInOrder ==
    /\ IsPrefix(events, StepOrder)
    /\ Len(invoked) <= 1
    /\ Sent("tool_invocation") <=> (invoked # <<>>)
    /\ (invoked # <<>> /\ select_reply # Unset /\ HasToolCall(select_reply)) =>
          /\ "name" \in DOMAIN FirstFunction(select_reply).d
          /\ FirstFunction(select_reply).d.name = PyStr(invoked[1])

C10_Witness ==
    /\ pc = "done"
    /\ events = StepOrder
    /\ select_reply # Unset
    /\ HasToolCall(select_reply)
    /\ Len(select_reply.body.d.message.d.tool_calls.l) = 2
    /\ invoked = <<"get_orders_by_customer">>

\* C11: no step of a process_query run changes the registry: the descriptor
\* list of get_tools() and the mapping of get_tool_functions() are the same
\* after every step as before it, whatever the endpoint and the database do.
C11_RegistryUnchanged ==
    [][/\ get_tools(tool_registry)' = get_tools(tool_registry)
       /\ get_tool_functions(tool_registry)' =
             get_tool_functions(tool_registry)]_vars

C11_Witness ==
    /\ pc = "done"
    /\ tool_name = PyStr("get_customers_by_country")
    /\ db_env = DbOtherError
    /\ HasErrorKey(tool_response)
    /\ tools = get_tools(get_tool_registry)
    /\ tool_functions = get_tool_functions(get_tool_registry)

\* the tool-selection request itself failed: no connection, timeout, HTTP
\* error, or a body that requests reports as undecodable
SelectionRequestFailed(reply) ==
    EndpointUnreachable(reply) \/ reply = BadJsonNew

\* the first tool call carries arguments that are neither a string nor a
\* mapping
ArgumentsOfWrongType(reply) ==
    /\ HasToolCall(reply)
    /\ "arguments" \in DOMAIN FirstFunction(reply).d
    /\ FirstFunction(reply).d.arguments.t \notin {"str", "dict"}

\* C12: when get_tool_call ends with no tool name and an error record (model
\* or endpoint unavailable, failed tool-selection request, arguments neither
\* string nor mapping), process_query returns exactly "Unable to process
\* query"; the text of the error record is not what the caller receives.
C12_GenericTextForErrorRecords ==
    (\/ tags_reply # Unset /\ AvailabilityCheckFails(variant, tags_reply)
     \/ select_reply # Unset /\ SelectionRequestFailed(select_reply)
     \/ select_reply # Unset /\ ArgumentsOfWrongType(select_reply)) =>
        /\ pc = "done"
        /\ ~raised
        /\ tool_name = PyNone
        /\ HasErrorKey(params)
        /\ final_response = PyStr("Unable to process query")
        /\ final_response # params.d["error"]

C12_Witness ==
    /\ pc = "done"
    /\ select_reply = TimeoutError
    /\ params = PyDict([error |-> PyStr("Read timed out")])
    /\ final_response = PyStr("Unable to process query")

====
